---- MODULE Spec2Model ----
(***************************************************************************)
(* Model of the DistPy compiler driver, dpy/compiler/ui.py: the version    *)
(* check, the command line, the debug level, the mode dispatch and the     *)
(* three pipelines (source, pseudo code, incremental interface).           *)
(*                                                                         *)
(* Python strings are sequences of one-character strings, so that          *)
(* str.rpartition, int() and string concatenation are computed rather than *)
(* assumed.  Python's None is the one-element sequence <<"None">>, which   *)
(* no string of single characters equals.  The values the external         *)
(* collaborators return are opaque tokens.                                 *)
(*                                                                         *)
(* The model assumes that every open() succeeds and that ast.parse accepts *)
(* the input file; the parser's verdict is its error count.                *)
(***************************************************************************)
EXTENDS Integers, Sequences, FiniteSets, TLC

\* ------------------------------------------------------------------ bounds
MaxStemLen == 2
MaxTokLen == 1
MaxOpts == 3
MaxErrCnt == 1

\* --------------------------------------------------------- Python values
None == <<"None">>

Dot == <<".">>
PY == <<"p", "y">>
DPY == <<"d", "p", "y">>
DotPy == <<".", "p", "y">>
DotDa == <<".", "d", "a">>
IncSuffix == <<"_", "i", "n", "c">>

Strings(chars, n) == UNION {[1..k -> chars] : k \in 0..n}

\* opaque results of the external collaborators
Program == <<"dt.program">>
PyAstOf(t) == <<"pyast">> \o t
SourceOf(t) == <<"source">> \o t
PseudoOf(t) == <<"pseudo">> \o t
IncOf(t) == <<"inc">> \o t
AstOf(t) == <<"ast">> \o t

\* what an external stage may hand back for the result r: r itself or None
Outcomes(r) == {r, None}

\* ------------------------------------------------------------ the inputs
StemChars == {".", "a"}
Stems == Strings(StemChars, MaxStemLen)
InFiles == (Stems \cup {s \o DotPy : s \in Stems} \cup {s \o Dot \o DPY : s \in Stems}) \ {<< >>}

OutNames == {None, <<"a">> \o IncSuffix \o DotPy}
PsdNames == {None, <<"c">> \o DotDa}

TokChars == {"1", "9", "a"}
Tokens == {None} \cup Strings(TokChars, MaxTokLen)

Versions == {<<2, 7, 0>>, <<3, 2, 0>>, <<3, 3, 0>>, <<3, 5, 0>>, <<3, 6, 0>>}

NoArgs == [outfile |-> None, debug |-> None, genpsd |-> FALSE, geninc |-> FALSE,
           notable1 |-> FALSE, notable2 |-> FALSE, notable3 |-> FALSE,
           jbstyle |-> FALSE, noalltables |-> FALSE, psdfile |-> None,
           infile |-> None]

B2N(b) == IF b THEN 1 ELSE 0

\* the number of options on the command line
NOpts(a) == B2N(a.outfile # None) + B2N(a.debug # None) + B2N(a.genpsd)
            + B2N(a.geninc) + B2N(a.notable1) + B2N(a.notable2)
            + B2N(a.notable3) + B2N(a.jbstyle) + B2N(a.noalltables)
            + B2N(a.psdfile # None)

Flags == {f \in [{"genpsd", "geninc", "notable1", "notable2", "notable3",
                   "jbstyle", "noalltables"} -> BOOLEAN] :
             Cardinality({k \in DOMAIN f : f[k]}) <= MaxOpts}

Argvs == {a \in {[outfile |-> o, debug |-> d, genpsd |-> f.genpsd, geninc |-> f.geninc,
                  notable1 |-> f.notable1, notable2 |-> f.notable2,
                  notable3 |-> f.notable3, jbstyle |-> f.jbstyle,
                  noalltables |-> f.noalltables, psdfile |-> p, infile |-> i] :
                     o \in OutNames, d \in Tokens, f \in Flags, p \in PsdNames,
                     i \in InFiles} : NOpts(a) <= MaxOpts}

VARIABLES
    pc,            \* where the process is
    version_info,  \* sys.version_info
    args,          \* the argparse namespace
    debug_level,   \* the process-wide debug level of utils
    level_writes,  \* how many times set_debug_level was called
    stderr,        \* the messages written to stderr
    ran,           \* the pipelines entered, in order
    calls,         \* the calls made to the external collaborators, in order
    handed,        \* the option dictionaries given to gen_inc_module
    writes,        \* the files opened for writing and what they were given
    purename,      \* local of the running pipeline
    suffix,        \* local of the running pipeline
    errcnt,        \* dt.errcnt of the parser run
    pyast,         \* local of dpyfile_to_pyfile
    exitcode,      \* what main returned
    uncaught       \* an exception left main

vars == <<pc, version_info, args, debug_level, level_writes, stderr, ran,
          calls, handed, writes, purename, suffix, errcnt, pyast, exitcode, uncaught>>

ErrCnts == 0..MaxErrCnt

Running == 0 - 1
NotParsed == 0 - 1

\* the debug levels utils.is_valid_debug_level recognizes, and the level
\* the process starts with
MinDebugLevel == 0
MaxDebugLevel == 5
InitialDebugLevel == 0

is_valid_debug_level(level) == MinDebugLevel <= level /\ level <= MaxDebugLevel

\* ------------------------------------------------------- pure functions

\* Python's comparison of tuples of integers: a < b
RECURSIVE TupleLess(_, _)
TupleLess(a, b) ==
    IF b = << >> THEN FALSE
    ELSE IF a = << >> THEN TRUE
    ELSE IF Head(a) # Head(b) THEN Head(a) < Head(b)
    ELSE TupleLess(Tail(a), Tail(b))

check_python_version_ok(v) == ~TupleLess(v, <<3, 3>>) /\ ~TupleLess(<<3, 5>>, v)

\* str.rpartition("."): <<head, sep, tail>> around the last "."
LastDot(s) == IF \E i \in 1..Len(s) : s[i] = "."
              THEN CHOOSE i \in 1..Len(s) : s[i] = "." /\ \A j \in (i+1)..Len(s) : s[j] # "."
              ELSE 0

rpartition(s) == IF LastDot(s) = 0 THEN << << >>, << >>, s >>
                 ELSE << SubSeq(s, 1, LastDot(s) - 1), Dot, SubSeq(s, LastDot(s) + 1, Len(s)) >>

\* the (purename, suffix) the three pipelines compute from the file name
SplitName(filename) ==
    LET parts == rpartition(filename)
    IN  IF Len(parts[1]) = 0 THEN << parts[3], << >> >> ELSE << parts[1], parts[3] >>

\* int(): << TRUE, value >>, or << FALSE, 0 >> where Python raises ValueError
IsDigit(c) == c \in {"0", "1", "2", "3", "4", "5", "6", "7", "8", "9"}
DigitVal(c) == CASE c = "0" -> 0 [] c = "1" -> 1 [] c = "2" -> 2 [] c = "3" -> 3
                 [] c = "4" -> 4 [] c = "5" -> 5 [] c = "6" -> 6 [] c = "7" -> 7
                 [] c = "8" -> 8 [] c = "9" -> 9

RECURSIVE Decimal(_)
Decimal(ds) == IF ds = << >> THEN 0
               ELSE 10 * Decimal(SubSeq(ds, 1, Len(ds) - 1)) + DigitVal(ds[Len(ds)])

ParseInt(tok) ==
    LET neg == tok # << >> /\ Head(tok) = "-"
        ds == IF neg THEN Tail(tok) ELSE tok
    IN  IF ds # << >> /\ \A i \in 1..Len(ds) : IsDigit(ds[i])
        THEN << TRUE, IF neg THEN 0 - Decimal(ds) ELSE Decimal(ds) >>
        ELSE << FALSE, 0 >>

Msg(m, a) == [msg |-> m, arg |-> a]
Call(by, fn, a, r) == [by |-> by, fn |-> fn, arg |-> a, ret |-> r]
Wr(by, path, text) == [by |-> by, path |-> path, text |-> text]

Empty == << >>
Raised == <<"raised">>

\* what to_pseudo may do with t: a dead unit (None) is outside what the
\* renderer is written for, so it may also raise
PseudoOutcomes(t) == IF t = None THEN {PseudoOf(t), None, Raised} ELSE Outcomes(PseudoOf(t))

\* ------------------------------------------------------------ the state
Init ==
    /\ pc = "main"
    /\ version_info \in Versions
    /\ args = NoArgs
    /\ debug_level = InitialDebugLevel
    /\ level_writes = 0
    /\ stderr = << >>
    /\ ran = << >>
    /\ calls = << >>
    /\ handed = << >>
    /\ writes = << >>
    /\ purename = None
    /\ suffix = None
    /\ errcnt = NotParsed
    /\ pyast = None
    /\ exitcode = Running
    /\ uncaught = FALSE

locals == <<purename, suffix, errcnt, pyast>>
effects == <<ran, calls, handed, writes>>
dbg == <<debug_level, level_writes>>

\* main, lines 147-148
CheckPythonVersion ==
    /\ pc = "main"
    /\ IF check_python_version_ok(version_info)
       THEN /\ pc' = "parse_args"
            /\ UNCHANGED <<stderr, exitcode>>
       ELSE /\ stderr' = Append(stderr, Msg("unsupported Python version", Empty))
            /\ exitcode' = 2
            /\ pc' = "done"
    /\ UNCHANGED <<version_info, args, dbg, effects, locals, uncaught>>

\* main, lines 150-187
ParseArgs ==
    /\ pc = "parse_args"
    /\ args' \in Argvs
    /\ pc' = "debug"
    /\ UNCHANGED <<version_info, dbg, stderr, effects, locals, exitcode, uncaught>>

\* DebugOutcome without the is_valid_debug_level test
DebugOutcomeNoRangeCheck(token) ==
    LET parsed == ParseInt(token)
    IN  IF token = None THEN [install |-> FALSE, value |-> 0, warn |-> FALSE]
        ELSE IF parsed[1]
             THEN [install |-> TRUE, value |-> parsed[2], warn |-> FALSE]
             ELSE [install |-> FALSE, value |-> 0, warn |-> TRUE]

\* main, lines 188-196: whether a level is installed, which, and whether
\* the ValueError handler writes its warning
DebugOutcome(token) ==
    LET parsed == ParseInt(token)
    IN  IF token = None THEN [install |-> FALSE, value |-> 0, warn |-> FALSE]
        ELSE IF parsed[1] /\ is_valid_debug_level(parsed[2])
             THEN [install |-> TRUE, value |-> parsed[2], warn |-> FALSE]
             ELSE [install |-> FALSE, value |-> 0, warn |-> TRUE]

SetDebug ==
    /\ pc = "debug"
    /\ LET out == DebugOutcome(args.debug)
       IN  /\ debug_level' = IF out.install THEN out.value ELSE debug_level
           /\ level_writes' = IF out.install THEN level_writes + 1 ELSE level_writes
           /\ stderr' = IF out.warn
                        THEN Append(stderr, Msg("Invalid debugging level", args.debug))
                        ELSE stderr
    /\ pc' = "dispatch"
    /\ UNCHANGED <<version_info, args, effects, locals, exitcode, uncaught>>

\* SelectPipeline with the two flag tests in the other order
SelectPipelineIncFirst(a) == IF a.geninc THEN "inc" ELSE IF a.genpsd THEN "psd" ELSE "py"

\* main, lines 198-203
SelectPipeline(a) == IF a.genpsd THEN "psd" ELSE IF a.geninc THEN "inc" ELSE "py"

Dispatch ==
    /\ pc = "dispatch"
    /\ pc' = SelectPipeline(args) \o "_locate"
    /\ UNCHANGED <<version_info, args, dbg, stderr, effects, locals, exitcode, uncaught>>

\* the suffix check all three pipelines start with; next is where the
\* pipeline goes on when the file is not skipped
Locate(by, filename, next) ==
    LET split == SplitName(filename)
    IN  /\ ran' = Append(ran, by)
        /\ purename' = split[1]
        /\ suffix' = split[2]
        /\ IF split[2] = PY
           THEN /\ stderr' = Append(stderr, Msg("Warning: skipping '.py' file", filename))
                /\ pc' = "return"
           ELSE /\ stderr' = IF split[2] # DPY
                             THEN Append(stderr, Msg("Warning: unknown suffix", filename))
                             ELSE stderr
                /\ pc' = next
        /\ UNCHANGED <<version_info, args, dbg, calls, handed, writes, errcnt, pyast,
                       exitcode, uncaught>>

\* dpyast_from_file, lines 21-30, for the parser's error count e
Compiled(filename) == Msg("compiled with errors and warnings", filename)
DpyastFromFile(e) == IF e = 0 THEN Program ELSE None

\* an uncaught exception ends the process
Crash ==
    /\ pc' = "crash"
    /\ uncaught' = TRUE
    /\ UNCHANGED exitcode

\* ------------------------------------------------- dpyfile_to_pyfile
\* lines 84-93
PyLocate ==
    /\ pc = "py_locate"
    /\ Locate("py", args.infile, "py_ast")

\* line 95: dpyfile_to_pyast, lines 37-47
PyAst ==
    /\ pc = "py_ast"
    /\ \E e \in ErrCnts :
         LET dpyast == DpyastFromFile(e)
             parse == Call("py", "Parser", args.infile, dpyast)
         IN  /\ errcnt' = e
             /\ IF dpyast = None
                THEN /\ calls' = Append(calls, parse)
                     /\ stderr' = stderr \o << Compiled(args.infile),
                            Msg("Error: unable to generate DistPy AST", args.infile) >>
                     /\ pyast' = None
                ELSE \E r \in Outcomes(PyAstOf(dpyast)) :
                     /\ calls' = calls \o << parse, Call("py", "PythonGenerator.visit", dpyast, r) >>
                     /\ stderr' = stderr \o << Compiled(args.infile) >> \o
                            (IF r = None
                             THEN << Msg("Error: unable to generate Python AST", args.infile) >>
                             ELSE << >>)
                     /\ pyast' = r
    /\ pc' = "py_emit"
    /\ UNCHANGED <<version_info, args, dbg, ran, handed, writes, purename, suffix, exitcode, uncaught>>

\* lines 97-103
PyEmit ==
    /\ pc = "py_emit"
    /\ IF pyast = None
       THEN /\ pc' = "return"
            /\ UNCHANGED <<calls, writes, stderr, exitcode, uncaught>>
       ELSE \E pystr \in Outcomes(SourceOf(pyast)) :
            LET outname == IF args.outfile = None THEN purename \o DotPy ELSE args.outfile
            IN  /\ calls' = Append(calls, Call("py", "to_source", pyast, pystr))
                /\ IF pystr = None
                   THEN /\ writes' = Append(writes, Wr("py", outname, Empty))
                        /\ Crash
                        /\ UNCHANGED stderr
                   ELSE /\ writes' = Append(writes, Wr("py", outname, pystr))
                        /\ stderr' = Append(stderr, Msg("Written compiled file", outname))
                        /\ pc' = "return"
                        /\ UNCHANGED <<exitcode, uncaught>>
    /\ UNCHANGED <<version_info, args, dbg, ran, handed, locals>>

\* --------------------------------------------- dpyfile_to_pseudofile
\* lines 57-66
PsdLocate ==
    /\ pc = "psd_locate"
    /\ Locate("psd", args.infile, "psd_emit")

\* lines 68-74
PsdEmit ==
    /\ pc = "psd_emit"
    /\ \E e \in ErrCnts :
         LET dpyast == DpyastFromFile(e)
             outname == IF args.psdfile = None THEN purename \o DotDa ELSE args.psdfile
         IN  /\ errcnt' = e
             /\ \E psdstr \in PseudoOutcomes(dpyast) :
                  /\ calls' = calls \o << Call("psd", "Parser", args.infile, dpyast),
                                          Call("psd", "to_pseudo", dpyast, psdstr) >>
                  /\ CASE psdstr = Raised ->
                         /\ stderr' = Append(stderr, Compiled(args.infile))
                         /\ Crash
                         /\ UNCHANGED writes
                    [] psdstr = None ->
                         /\ stderr' = Append(stderr, Compiled(args.infile))
                         /\ writes' = Append(writes, Wr("psd", outname, Empty))
                         /\ Crash
                    [] OTHER ->
                         /\ stderr' = stderr \o << Compiled(args.infile),
                                Msg("Written pseudo code file", outname) >>
                         /\ writes' = Append(writes, Wr("psd", outname, psdstr))
                         /\ pc' = "return"
                         /\ UNCHANGED <<exitcode, uncaught>>
    /\ UNCHANGED <<version_info, args, dbg, ran, handed, purename, suffix, pyast>>

\* ----------------------------------------------- dpyfile_to_incfiles
\* lines 116-127
IncLocate ==
    /\ pc = "inc_locate"
    /\ Locate("inc", args.infile, "inc_emit")

\* the configuration gen_inc_module derives from the dictionary it is given
TransformConfig(d) ==
    [table1 |-> ~d.noalltables /\ ~d.notable1,
     table2 |-> ~d.noalltables /\ ~d.notable2,
     table3 |-> ~d.noalltables /\ ~d.notable3,
     jbStyle |-> d.jbstyle,
     allTablesDisabled |-> d.noalltables]

\* IncOptions losing the --no-all-tables flag
IncOptionsTablesOnly(a) == [a EXCEPT !.noalltables = FALSE]

\* line 132: the dictionary gen_inc_module is given
IncOptions(a) == a

\* lines 128-142
IncEmit ==
    /\ pc = "inc_emit"
    /\ \E e \in ErrCnts :
         LET dpyast == DpyastFromFile(e)
             parse == Call("inc", "Parser", args.infile, dpyast)
             module_filename == purename \o IncSuffix \o DotPy
             outname == IF args.outfile = None THEN purename \o DotPy ELSE args.outfile
         IN  /\ errcnt' = e
             /\ IF dpyast = None
                THEN /\ calls' = Append(calls, parse)
                     /\ stderr' = Append(stderr, Compiled(args.infile))
                     /\ pc' = "return"
                     /\ UNCHANGED <<handed, writes, exitcode, uncaught>>
                ELSE /\ handed' = Append(handed, IncOptions(args))
                     /\ \E pair \in Outcomes(<<IncOf(dpyast), AstOf(dpyast)>>) :
                        IF pair = None
                        THEN /\ calls' = calls \o << parse, Call("inc", "gen_inc_module", dpyast, None) >>
                             /\ stderr' = Append(stderr, Compiled(args.infile))
                             /\ Crash
                             /\ UNCHANGED writes
                        ELSE \E incstr \in Outcomes(SourceOf(pair[1])),
                                aststr \in Outcomes(SourceOf(pair[2])) :
                             /\ calls' = calls \o << parse,
                                    Call("inc", "gen_inc_module", dpyast, pair[1] \o pair[2]),
                                    Call("inc", "to_source", pair[1], incstr),
                                    Call("inc", "to_source", pair[2], aststr) >>
                             /\ CASE aststr = None ->
                                      /\ writes' = Append(writes, Wr("inc", outname, Empty))
                                      /\ stderr' = Append(stderr, Compiled(args.infile))
                                      /\ Crash
                                  [] aststr # None /\ incstr = None ->
                                      /\ writes' = writes \o << Wr("inc", outname, aststr),
                                             Wr("inc", module_filename, Empty) >>
                                      /\ stderr' = stderr \o << Compiled(args.infile),
                                             Msg("Written compiled file", outname) >>
                                      /\ Crash
                                  [] OTHER ->
                                      /\ writes' = writes \o << Wr("inc", outname, aststr),
                                             Wr("inc", module_filename, incstr) >>
                                      /\ stderr' = stderr \o << Compiled(args.infile),
                                             Msg("Written compiled file", outname),
                                             Msg("Written interface file", module_filename) >>
                                      /\ pc' = "return"
                                      /\ UNCHANGED <<exitcode, uncaught>>
    /\ UNCHANGED <<version_info, args, dbg, ran, purename, suffix, pyast>>

\* main, line 205
Return ==
    /\ pc = "return"
    /\ exitcode' = 0
    /\ pc' = "done"
    /\ UNCHANGED <<version_info, args, dbg, stderr, effects, locals, uncaught>>

Next ==
    \/ CheckPythonVersion
    \/ ParseArgs
    \/ SetDebug
    \/ Dispatch
    \/ PyLocate
    \/ PyAst
    \/ PyEmit
    \/ PsdLocate
    \/ PsdEmit
    \/ IncLocate
    \/ IncEmit
    \/ Return

Spec == Init /\ [][Next]_vars

\* ================================================================ claims

\* the vocabulary of the claims
Started == /\ pc \notin {"main", "parse_args", "debug", "dispatch"}
           /\ pc \notin {"py_locate", "psd_locate", "inc_locate"}
           /\ exitcode # 2
Finished == pc \in {"return", "done"} /\ exitcode # 2
Generators == {"PythonGenerator.visit", "to_source", "to_pseudo", "gen_inc_module"}
CallsOf(fns) == {i \in 1..Len(calls) : calls[i].fn \in fns}
Count(m) == Cardinality({i \in 1..Len(stderr) : stderr[i].msg = m})
Paths == {writes[i].path : i \in 1..Len(writes)}
\* what the file at path holds once the run is over: the last text written to it
Holds(path) == LET last == CHOOSE i \in 1..Len(writes) :
                              /\ writes[i].path = path
                              /\ \A j \in (i+1)..Len(writes) : writes[j].path # path
               IN  writes[last].text

\* the split the specification describes: around the last ".", and the whole
\* path with an empty suffix where there is none
Dots(s) == {i \in 1..Len(s) : s[i] = "."}
HasSeparator(s) == Dots(s) # {}
SepAt(s) == CHOOSE i \in Dots(s) : \A j \in Dots(s) : j <= i
BaseOf(s) == IF HasSeparator(s) THEN SubSeq(s, 1, SepAt(s) - 1) ELSE s
SuffixOf(s) == IF HasSeparator(s) THEN SubSeq(s, SepAt(s) + 1, Len(s)) ELSE << >>

\* the pipeline the flags select, by the documented priority
Selected == IF args.genpsd THEN "psd" ELSE IF args.geninc THEN "inc" ELSE "py"

\* C1: when the parser reports errcnt > 0, no generator or renderer is
\* invoked and no output file is written, in every mode.
C1_Gate == errcnt > 0 => CallsOf(Generators) = {} /\ writes = << >>

\* C2: main returns 2 exactly when the version check fails, having done
\* nothing else; every other run returns 0 and no failure escapes main.
C2_ExitCode ==
    /\ ~uncaught
    /\ pc # "crash"
    /\ pc = "done" => exitcode = (IF check_python_version_ok(version_info) THEN 0 ELSE 2)
    /\ exitcode = 2 => /\ args = NoArgs
                       /\ debug_level = InitialDebugLevel /\ level_writes = 0
                       /\ ran = << >> /\ calls = << >> /\ writes = << >>

\* C3: once main dispatches, exactly one pipeline runs, the one the flags
\* select by priority (pseudo code, else incremental, else source), and
\* every parse, generation and write is that pipeline's.
C3_ModeDispatch ==
    /\ pc \in {"py_locate", "psd_locate", "inc_locate"} => pc = Selected \o "_locate"
    /\ Started => ran = << Selected >>
    /\ ~Started => ran = << >>
    /\ \A i \in 1..Len(calls) : calls[i].by = Selected
    /\ \A i \in 1..Len(writes) : writes[i].by = Selected

C3_Witness ==
    /\ pc = "done" /\ args.genpsd /\ args.geninc
    /\ ran = << "psd" >> /\ writes # << >>

\* C4: the incremental pipeline, with a non-null parse result and both
\* generation stages successful, ends with exactly two distinct files: the
\* rewritten module's source at -o (or base + ".py") and the interface
\* module's source at base + "_inc.py".
C4_TwoFiles ==
    (Finished /\ ran = << "inc" >> /\ errcnt = 0) =>
        /\ Cardinality(Paths) = 2
        /\ \E primary \in Paths : Holds(primary) = SourceOf(AstOf(Program))
        /\ \E interface \in Paths : Holds(interface) = SourceOf(IncOf(Program))

\* C5: a pipeline writes its primary artifact at the explicit path when
\* one is given (-o, --psdfile) and at base + ".py" (source, incremental)
\* or base + ".da" (pseudo code) otherwise.
C5_OutputPath ==
    writes # << >> =>
        writes[1].path =
            IF Selected = "psd"
            THEN (IF args.psdfile # None THEN args.psdfile
                  ELSE BaseOf(args.infile) \o DotDa)
            ELSE (IF args.outfile # None THEN args.outfile
                  ELSE BaseOf(args.infile) \o DotPy)

\* C6: every pipeline splits the input path on its last "." into the text
\* before it and the text after it, and a path with no "." is all base.
C6_PathSplit ==
    ran # << >> => purename = BaseOf(args.infile) /\ suffix = SuffixOf(args.infile)

\* C7: a "py" suffix gives one warning and skips everything; another
\* suffix that is present and not "dpy" gives one warning and the
\* pipeline goes on; "dpy" and no suffix give no suffix warning.
C7_SuffixClass ==
    ran # << >> =>
        LET sfx == SuffixOf(args.infile)
            skips == Count("Warning: skipping '.py' file")
            unknowns == Count("Warning: unknown suffix")
        IN  /\ sfx = PY => /\ skips = 1 /\ unknowns = 0
                           /\ pc \in {"return", "done"}
                           /\ errcnt = NotParsed /\ calls = << >> /\ writes = << >>
            /\ (HasSeparator(args.infile) /\ sfx \notin {PY, DPY}) =>
                           /\ skips = 0 /\ unknowns = 1
                           /\ pc \in {"return", "done"} => errcnt # NotParsed
            /\ (sfx = DPY \/ ~HasSeparator(args.infile)) =>
                           /\ skips = 0 /\ unknowns = 0
                           /\ pc \in {"return", "done"} => errcnt # NotParsed

\* C8: a -L token that is no integer, or an integer outside the recognized
\* range, leaves the debug level as it was with exactly one warning, and
\* the selected pipeline still runs; a valid token installs its level; the
\* level is written at most once, and never once a pipeline has started.
C8_DebugLevel ==
    LET token == args.debug
        int == ParseInt(token)
        valid == token # None /\ int[1] /\ is_valid_debug_level(int[2])
        warnings == Count("Invalid debugging level")
    IN  /\ level_writes <= 1
        /\ pc \in {"main", "parse_args", "debug"} =>
               debug_level = InitialDebugLevel /\ level_writes = 0 /\ warnings = 0
        /\ (pc \notin {"main", "parse_args", "debug"} /\ exitcode # 2) =>
               /\ (token # None /\ ~valid) =>
                      debug_level = InitialDebugLevel /\ level_writes = 0 /\ warnings = 1
               /\ valid => debug_level = int[2] /\ level_writes = 1 /\ warnings = 0
               /\ token = None =>
                      debug_level = InitialDebugLevel /\ level_writes = 0 /\ warnings = 0
               /\ pc \in {"return", "done", "crash"} => ran = << Selected >>

C8_Witness ==
    /\ pc = "done" /\ args.debug = << "9" >>
    /\ debug_level = InitialDebugLevel /\ Count("Invalid debugging level") = 1
    /\ ran # << >> /\ writes # << >>

C10_StageFailure ==
    \A i \in 1..Len(calls) :
        (calls[i].by = "py" /\ calls[i].fn \in {"PythonGenerator.visit", "to_source"}
            /\ calls[i].ret = None) =>
                /\ i = Len(calls)
                /\ writes = << >>
                /\ ~uncaught
                /\ Count("Error: unable to generate Python AST") = 1
                      \/ Count("Error: unable to generate Python source") = 1

====
